---- MODULE Spec2Model ----
(***************************************************************************)
(* Playback-state synchronisation core of the call panel:                  *)
(*   VideoStateService  (the store and the authority token),               *)
(*   VideoPlayer        (the media source resolver and the player surface),*)
(* and the call queue around it:                                           *)
(*   CallService, AudioService, and the Highlight and Sidebar containers.   *)
(***************************************************************************)
EXTENDS Integers, Sequences, FiniteSets, TLC

VARIABLES
    now,                \* the reading Date.now() returns
    videoStateSubject,  \* VideoStateService.videoStateSubject.value
    activePlayerId,     \* VideoStateService.activePlayerId
    subscribed,         \* observers subscribed to videoState$
    received,           \* per observer, the states delivered to it, in order
    lastCall,           \* the call the latest step made on the service (history)
    videoConfig,        \* VideoStateService.videoConfig
    player,             \* per surface, the fields of its VideoPlayer component
    engine,             \* per surface, the YouTube player behind event.target
    timers,             \* per surface, the setTimeout callbacks not yet run
    issued,             \* the engine commands the latest step issued (history)
    calls,              \* the fields of CallService
    audio,              \* the fields of AudioService
    highlight,          \* the fields of the Highlight container
    sidebar             \* the fields of the Sidebar container

storeVars == <<videoStateSubject, activePlayerId, subscribed, received, lastCall>>
componentVars == <<videoConfig, player, engine, timers, issued>>
callVars == <<calls, audio, highlight, sidebar>>
vars == <<now, videoStateSubject, activePlayerId, subscribed, received, lastCall,
          videoConfig, player, engine, timers, issued,
          calls, audio, highlight, sidebar>>

----------------------------------------------------------------------------
(* Bounds of the model *)

MaxTime == 1
MaxClock == 1
MaxLog == 2
MaxLen == 3
MaxPending == 1
MaxCalls == 5

----------------------------------------------------------------------------
(* Values *)

\* null of a `string | null` slot
NoId == "null"

\* the ids the VideoPlayer constructor generates: never empty
PlayerIds == {"player_m1", "player_m2", "player_f1"}

\* JavaScript truthiness of a `string | null` value
Truthy(s) == s # NoId /\ s # ""

\* YouTube player state codes
UNSTARTED == -1
ENDED == 0
PLAYING == 1
PAUSED == 2
BUFFERING == 3
CUED == 5
StateCodes == {UNSTARTED, ENDED, PLAYING, PAUSED, BUFFERING, CUED}

Times == 0..MaxTime
Clock == 0..MaxClock
Fields == {"currentTime", "playerState", "isPlaying", "lastUpdate"}
Observers == {"obs1", "obs2"}

\* A Partial<VideoState>: the fields in D, taken from the full record v
Pick(D, v) == [f \in D |-> v[f]]

\* The shapes of Partial<VideoState> the callers of the service pass:
\* {} , saveCurrentTime, the resume push, savePlayerState, the telemetry
\* push, the destroy flush
Shapes ==
    { {}, {"currentTime"}, {"isPlaying"}, {"playerState", "isPlaying"},
      {"currentTime", "playerState", "isPlaying"}, Fields }

\* The values arbitrary callers of the service write
ApiStates ==
    [currentTime : Times, playerState : {PAUSED}, isPlaying : BOOLEAN,
     lastUpdate : Clock]

Partials == { Pick(D, v) : D \in Shapes, v \in ApiStates }

ApiIds == {"player_m1", "player_m2"}

----------------------------------------------------------------------------
(* VideoStateService *)

initialState ==
    [currentTime |-> 0, playerState |-> UNSTARTED, isPlaying |-> FALSE,
     lastUpdate |-> now]

\* { ...currentState, ...state, lastUpdate: Date.now() }
SpreadLate(currentState, state) ==
    [f \in Fields |->
        IF f \in DOMAIN state THEN state[f]
        ELSE IF f = "lastUpdate" THEN now
        ELSE currentState[f]]

Spread(currentState, state) ==
    [f \in Fields |->
        IF f = "lastUpdate" THEN now
        ELSE IF f \in DOMAIN state THEN state[f]
        ELSE currentState[f]]

\* no engine command
NoCmds == [surface |-> NoId, cmds |-> <<>>]

\* no call on the service
NoPartial == [f \in {} |-> 0]
NoCall == [op |-> "none", state |-> NoPartial, playerId |-> NoId]

\* BehaviorSubject.next: replace the value, deliver it to every subscriber
nextCoalesce(newState) ==
    /\ videoStateSubject' = newState
    /\ received' = [o \in Observers |->
                      IF o \in subscribed
                      THEN <<newState>> ELSE received[o]]

next(newState) ==
    /\ videoStateSubject' = newState
    /\ received' = [o \in Observers |->
                      IF o \in subscribed
                      THEN Append(received[o], newState) ELSE received[o]]

\* videoState$.subscribe(observer): the current value is delivered at once
subscribe(o) ==
    /\ o \notin subscribed
    /\ subscribed' = subscribed \cup {o}
    /\ received' = [received EXCEPT ![o] = <<videoStateSubject>>]
    /\ lastCall' = [op |-> "subscribe", state |-> NoPartial,
                    playerId |-> o]
    /\ UNCHANGED <<videoStateSubject, activePlayerId>>

updateStateNoGate(state, playerId) ==
    /\ lastCall' = [op |-> "updateState", state |-> state, playerId |-> playerId]
    /\ next(Spread(videoStateSubject, state))
    /\ UNCHANGED <<activePlayerId, subscribed>>

updateStateNullOnly(state, playerId) ==
    /\ lastCall' = [op |-> "updateState", state |-> state, playerId |-> playerId]
    /\ IF activePlayerId # playerId
         THEN UNCHANGED <<videoStateSubject, received>>
         ELSE next(Spread(videoStateSubject, state))
    /\ UNCHANGED <<activePlayerId, subscribed>>

updateState(state, playerId) ==
    /\ lastCall' = [op |-> "updateState", state |-> state, playerId |-> playerId]
    /\ IF Truthy(activePlayerId) /\ activePlayerId # playerId
         THEN UNCHANGED <<videoStateSubject, received>>
         ELSE next(Spread(videoStateSubject, state))
    /\ UNCHANGED <<activePlayerId, subscribed>>

setActivePlayerOnce(playerId) ==
    /\ lastCall' = [op |-> "setActivePlayer", state |-> NoPartial,
                    playerId |-> playerId]
    /\ activePlayerId' = IF Truthy(activePlayerId) THEN activePlayerId ELSE playerId
    /\ UNCHANGED <<videoStateSubject, subscribed, received>>

setActivePlayer(playerId) ==
    /\ lastCall' = [op |-> "setActivePlayer", state |-> NoPartial,
                    playerId |-> playerId]
    /\ activePlayerId' = playerId
    /\ UNCHANGED <<videoStateSubject, subscribed, received>>

forceUpdateStateGated(state) ==
    /\ lastCall' = [op |-> "forceUpdateState", state |-> state, playerId |-> NoId]
    /\ IF Truthy(activePlayerId)
         THEN UNCHANGED <<videoStateSubject, received>>
         ELSE next(Spread(videoStateSubject, state))
    /\ UNCHANGED <<activePlayerId, subscribed>>

forceUpdateState(state) ==
    /\ lastCall' = [op |-> "forceUpdateState", state |-> state, playerId |-> NoId]
    /\ next(Spread(videoStateSubject, state))
    /\ UNCHANGED <<activePlayerId, subscribed>>

\* Date.now() advances
Tick ==
    /\ now < MaxClock
    /\ now' = now + 1
    /\ lastCall' = NoCall
    /\ issued' = NoCmds
    /\ UNCHANGED <<videoStateSubject, activePlayerId, subscribed, received,
                   videoConfig, player, engine, timers, callVars>>

----------------------------------------------------------------------------
(* VideoPlayer: the component and its media source resolver *)

\* The surfaces, named by the playerId their constructor generates
Surfaces == PlayerIds

\* @Input() isMainPlayer
isMainPlayer(s) == s \in {"player_m1", "player_m2"}

\* The configuration the service ships
fixedVideoConfig == [videoId |-> "WdxYgjjPSjg"]

\* playerConfig as the field initialiser leaves it
initialPlayerConfig ==
    [k \in {"autoplay", "mute", "loop", "listType", "list", "playlist", "index"} |->
        CASE k = "index" -> 0
          [] k \in {"autoplay", "mute", "loop"} -> 1
          [] OTHER -> "undefined"]

\* The component after its constructor: an optional field that is undefined
\* is a key `source` does not have.  The fields currentTime and playerState
\* are left out: ngOnInit assigns them and nothing in the component reads them
newVideoPlayer ==
    [phase |-> "constructed",
     source |-> [k \in {"videoId"} |-> ""],
     playerConfig |-> initialPlayerConfig,
     hasPlayer |-> FALSE,
     isPlayerReady |-> FALSE,
     saveStateInterval |-> FALSE]

\* the engine as the youtube-player creates it from playerConfig (mute: 1)
newEngine == [time |-> 0, state |-> UNSTARTED, muted |-> TRUE]

\* no delayed callback pending and no interval running; seek holds the
\* position to seek to, or -1; interval counts the running setInterval timers
noTimers ==
    [seek |-> -1, play200 |-> FALSE, play1000 |-> FALSE, ended |-> 0, interval |-> 0]

InitComponents ==
    /\ player = [s \in Surfaces |-> newVideoPlayer]
    /\ engine = [s \in Surfaces |-> newEngine]
    /\ timers = [s \in Surfaces |-> noTimers]
    /\ issued = NoCmds

\* a function without the keys in D
Without(f, D) == [k \in DOMAIN f \ D |-> f[k]]

\* a function with key k set to v
With(f, k, v) == [j \in DOMAIN f \cup {k} |-> IF j = k THEN v ELSE f[j]]

\* the rest of a sequence after its first element: Array.slice(1)
slice1(ids) == [i \in 1..(Len(ids) - 1) |-> ids[i + 1]]

\* this.videoId / playlistId / videoIds as ngOnInit assigns them
sourceOf(config) ==
    [k \in {"videoId"} \cup (DOMAIN config \cap {"playlistId", "videoIds"}) |->
        IF k = "videoId"
        THEN IF "videoId" \in DOMAIN config /\ config.videoId # ""
             THEN config.videoId ELSE "dQw4w9WgXcQ"
        ELSE config[k]]

hasPlaylistId(src) == "playlistId" \in DOMAIN src /\ src.playlistId # ""

setupPlayerConfigWholeList(src, playerConfig) ==
    IF hasPlaylistId(src)
    THEN With(With(Without(playerConfig, {"playlist"}), "listType", "playlist"),
              "list", src.playlistId)
    ELSE IF "videoIds" \in DOMAIN src /\ Len(src.videoIds) > 1
    THEN With(Without(playerConfig, {"listType", "list"}),
              "playlist", src.videoIds)
    ELSE Without(playerConfig, {"listType", "list", "playlist"})

setupPlayerConfig(src, playerConfig) ==
    IF hasPlaylistId(src)
    THEN With(With(Without(playerConfig, {"playlist"}), "listType", "playlist"),
              "list", src.playlistId)
    ELSE IF "videoIds" \in DOMAIN src /\ Len(src.videoIds) > 1
    THEN With(Without(playerConfig, {"listType", "list"}),
              "playlist", slice1(src.videoIds))
    ELSE Without(playerConfig, {"listType", "list", "playlist"})

getVideoIdSingle(src) ==
    IF "videoIds" \in DOMAIN src /\ Len(src.videoIds) > 1 THEN src.videoIds[1]
    ELSE IF hasPlaylistId(src) THEN ""
    ELSE src.videoId

getVideoId(src) ==
    IF "videoIds" \in DOMAIN src /\ Len(src.videoIds) > 0 THEN src.videoIds[1]
    ELSE IF hasPlaylistId(src) THEN ""
    ELSE src.videoId

\* a handler that makes no call on the service
noCall ==
    /\ lastCall' = NoCall
    /\ UNCHANGED <<videoStateSubject, activePlayerId, subscribed, received>>

ngOnInitAnySurface(s) ==
    /\ player[s].phase = "constructed"
    /\ player' = [player EXCEPT ![s] =
          [@ EXCEPT !.phase = "configured",
                    !.source = sourceOf(videoConfig),
                    !.playerConfig = setupPlayerConfig(sourceOf(videoConfig), @)]]
    /\ setActivePlayer(s)
    /\ issued' = NoCmds
    /\ UNCHANGED <<callVars, now, videoConfig, engine, timers>>

\* ngOnInit: resolve the source and take the authority if this is the main
\* surface (the two write-only seeds read from the store are not kept)
ngOnInit(s) ==
    /\ player[s].phase = "constructed"
    /\ player' = [player EXCEPT ![s] =
          [@ EXCEPT !.phase = "configured",
                    !.source = sourceOf(videoConfig),
                    !.playerConfig = setupPlayerConfig(sourceOf(videoConfig), @)]]
    /\ IF isMainPlayer(s) THEN setActivePlayer(s) ELSE noCall
    /\ issued' = NoCmds
    /\ UNCHANGED <<callVars, now, videoConfig, engine, timers>>

----------------------------------------------------------------------------
(* CallService, AudioService and the two containers that listen to them *)

\* AppState
DEFAULT == "default"
CALLING == "calling"

\* the null of `CallData | null`
nullCall == [null |-> TRUE]

\* two of the mockDoctors, with the acronyms of their specialties
mockDoctors ==
    { [name |-> "José Ferreira", specialty |-> "Cardiologista"],
      [name |-> "Ana Souza", specialty |-> "Pediatra"] }

specialtyAcronyms ==
    [sp \in {d.specialty : d \in mockDoctors} |->
        IF sp = "Cardiologista" THEN "CARD" ELSE "PED"]

\* the value Math.floor(Math.random() * 10) + 1 takes in the model
Guichets == {10}

\* Number.toString(): the decimal digits of n
RECURSIVE toDigits(_)
toDigits(n) == IF n < 10 THEN <<n>> ELSE Append(toDigits(n \div 10), n % 10)

\* String.padStart(len, '0') on a string of digits
RECURSIVE padStart(_, _)
padStart(ds, len) == IF Len(ds) >= len THEN ds ELSE padStart(<<0>> \o ds, len)

\* `${acronym}-${counter}N`
passwordOf(acronym, n) == [acronym |-> acronym, counter |-> padStart(toDigits(n), 3)]

\* CallService after its constructor
newCallService ==
    [currentStateSubject |-> DEFAULT,
     currentCallSubject |-> nullCall,
     callHistorySubject |-> <<>>,
     callHistory |-> <<>>,
     specialtyCounters |-> [sp \in DOMAIN specialtyAcronyms |-> 0],
     generated |-> 0,        \* calls generated so far; the id of a call
     pending |-> 0,          \* 15 s timeouts not yet run
     autoCall |-> FALSE]     \* the 30 s interval is running

\* AudioService after its constructor; tone tells whether the latest step
\* played the call tone, enabling counts the silent plays not yet settled
newAudioService ==
    [isAudioEnabled |-> FALSE,
     audioEnabledSubject |-> FALSE,
     enabling |-> 0,
     tone |-> FALSE]

\* the containers after their constructors
newHighlight ==
    [subscribed |-> FALSE,
     isCallingState |-> FALSE,
     currentCall |-> nullCall,
     showVideo |-> FALSE]

newSidebar ==
    [subscribed |-> FALSE,
     isCallingState |-> FALSE,
     lastCall |-> nullCall,
     callHistory |-> <<>>,
     allHistory |-> <<>>,
     audioEnabled |-> FALSE,
     showMiniVideo |-> FALSE]

InitCalls ==
    /\ calls = newCallService
    /\ audio = newAudioService
    /\ highlight = newHighlight
    /\ sidebar = newSidebar

\* Array.slice(from, to) on a sequence, positions counted from 0
slice(xs, from, to) ==
    SubSeq(xs, from + 1, IF to < Len(xs) THEN to ELSE Len(xs))

highlightOnStateTransitionsOnly(h, state) ==
    LET wasCallingState == h.isCallingState
        h1 == [h EXCEPT !.isCallingState = (state = CALLING)]
        h2 == IF state = DEFAULT /\ wasCallingState
              THEN [h1 EXCEPT !.showVideo = TRUE] ELSE h1
    IN  IF state = CALLING /\ ~wasCallingState
        THEN [h2 EXCEPT !.showVideo = FALSE] ELSE h2

\* Highlight: the callback on currentState$
highlightOnState(h, state) ==
    LET wasCallingState == h.isCallingState
        h1 == [h EXCEPT !.isCallingState = (state = CALLING)]
        h2 == IF state = DEFAULT /\ wasCallingState
              THEN [h1 EXCEPT !.showVideo = TRUE] ELSE h1
        h3 == IF state = CALLING /\ ~wasCallingState
              THEN [h2 EXCEPT !.showVideo = FALSE] ELSE h2
    IN  IF state = DEFAULT THEN [h3 EXCEPT !.showVideo = TRUE] ELSE h3

\* Highlight: the callback on currentCall$
highlightOnCall(h, call) == [h EXCEPT !.currentCall = call]

\* Sidebar: the callback on currentState$
sidebarOnState(sb, state) ==
    LET wasCallingState == sb.isCallingState
        s1 == [sb EXCEPT !.isCallingState = (state = CALLING)]
        s2 == IF state = CALLING /\ ~wasCallingState
              THEN [s1 EXCEPT !.showMiniVideo = TRUE] ELSE s1
    IN  IF state = DEFAULT /\ wasCallingState
        THEN [s2 EXCEPT !.showMiniVideo = FALSE] ELSE s2

\* Sidebar: the callback on callHistory$
sidebarOnHistory(sb, history) ==
    [sb EXCEPT !.allHistory = history,
               !.lastCall = IF Len(history) > 0 THEN history[1] ELSE nullCall,
               !.callHistory = slice(history, 1, 5)]

\* Sidebar: the callback on audioEnabled$
sidebarOnAudio(sb, enabled) == [sb EXCEPT !.audioEnabled = enabled]

\* CallService.getLastCall and getCallHistory
getLastCall(c) == IF Len(c.callHistory) > 0 THEN c.callHistory[1] ELSE nullCall
getCallHistory(c) == slice(c.callHistory, 1, Len(c.callHistory))

\* Sidebar.loadInitialData
loadInitialData(sb, c) ==
    [sb EXCEPT !.lastCall = getLastCall(c),
               !.callHistory = getCallHistory(c),
               !.allHistory = SelectSeq(<<getLastCall(c)>> \o getCallHistory(c),
                                        LAMBDA call : call # nullCall)]

\* what the subjects deliver to a container: nothing before it subscribed
stateToHighlight(h, state) == IF h.subscribed THEN highlightOnState(h, state) ELSE h
callToHighlight(h, call) == IF h.subscribed THEN highlightOnCall(h, call) ELSE h
stateToSidebar(sb, state) == IF sb.subscribed THEN sidebarOnState(sb, state) ELSE sb
historyToSidebar(sb, history) == IF sb.subscribed THEN sidebarOnHistory(sb, history) ELSE sb
audioToSidebar(sb, enabled) == IF sb.subscribed THEN sidebarOnAudio(sb, enabled) ELSE sb

\* a handler that touches neither the store nor the surfaces
noSurface == UNCHANGED <<now, storeVars, componentVars>>

\* AudioService.playCallTone: silent unless audio was enabled; a rejected
\* play() is answered by the fallback element, so a tone is started either way
playCallTone(a) == [a EXCEPT !.tone = a.isAudioEnabled]

\* CallService.generateCall: the call and the counters after it
generateCall(c, doctor, guichet) ==
    LET counters == [c.specialtyCounters EXCEPT ![doctor.specialty] = @ + 1]
    IN  [call |-> [id |-> c.generated + 1,
                   password |-> passwordOf(specialtyAcronyms[doctor.specialty],
                                           counters[doctor.specialty]),
                   doctorName |-> doctor.name,
                   specialty |-> doctor.specialty,
                   guichet |-> guichet,
                   timestamp |-> now],
         counters |-> counters]

----------------------------------------------------------------------------
(* The service driven through its public interface by arbitrary callers *)

InitStore ==
    /\ now = 0
    /\ videoStateSubject = initialState
    /\ activePlayerId = NoId
    /\ subscribed = {}
    /\ received = [o \in Observers |-> <<>>]
    /\ lastCall = NoCall

LogRoom(n) == \A o \in Observers : Len(received[o]) < n

ApiSubscribe ==
    /\ subscribe("obs1")
    /\ UNCHANGED <<callVars, now, componentVars>>

ApiSetActivePlayer ==
    /\ \E id \in ApiIds : setActivePlayer(id)
    /\ UNCHANGED <<callVars, now, componentVars>>

ApiUpdateState ==
    /\ LogRoom(MaxLog)
    /\ \E state \in Partials, id \in ApiIds : updateState(state, id)
    /\ UNCHANGED <<callVars, now, componentVars>>

ApiForceUpdateState ==
    /\ LogRoom(MaxLog)
    /\ \E state \in Partials : forceUpdateState(state)
    /\ UNCHANGED <<callVars, now, componentVars>>

InitSpecStore ==
    /\ InitStore
    /\ videoConfig = fixedVideoConfig
    /\ InitComponents
    /\ InitCalls

NextStore ==
    \/ Tick
    \/ ApiSubscribe
    \/ ApiSetActivePlayer
    \/ ApiUpdateState
    \/ ApiForceUpdateState

SpecStore == InitSpecStore /\ [][NextStore]_vars

----------------------------------------------------------------------------
(* The stream videoState$ watched by several observers while callers save   *)
(* positions                                                                *)

saveCurrentTime(time, playerId) == updateState([currentTime |-> time], playerId)

savePlayerState(playerState, isPlaying, playerId) ==
    updateState([playerState |-> playerState, isPlaying |-> isPlaying], playerId)

ObsSubscribe ==
    /\ \E o \in Observers : subscribe(o)
    /\ UNCHANGED <<callVars, now, componentVars>>

ObsSetActivePlayer ==
    /\ \E id \in ApiIds : setActivePlayer(id)
    /\ UNCHANGED <<callVars, now, componentVars>>

ObsSaveCurrentTime ==
    /\ LogRoom(MaxLog + 1)
    /\ \E time \in Times, id \in ApiIds : saveCurrentTime(time, id)
    /\ UNCHANGED <<callVars, now, componentVars>>

ObsSavePlayerState ==
    /\ LogRoom(MaxLog + 1)
    /\ \E id \in ApiIds : savePlayerState(PAUSED, FALSE, id)
    /\ UNCHANGED <<callVars, now, componentVars>>

ObsForceUpdateState ==
    /\ LogRoom(MaxLog + 1)
    /\ \E time \in Times, stamp \in Clock :
          forceUpdateState([currentTime |-> time, playerState |-> PAUSED,
                            isPlaying |-> FALSE, lastUpdate |-> stamp])
    /\ UNCHANGED <<callVars, now, componentVars>>

NextObserve ==
    \/ Tick
    \/ ObsSubscribe
    \/ ObsSetActivePlayer
    \/ ObsSaveCurrentTime
    \/ ObsSavePlayerState
    \/ ObsForceUpdateState

SpecObserve == InitSpecStore /\ [][NextObserve]_vars

----------------------------------------------------------------------------
(* The resolver on every source configuration *)

VideoIdSet == {"a", "b", "c"}
IdLists == UNION {[1..n -> VideoIdSet] : n \in 0..MaxLen}

Configs ==
    { [k \in D |->
         CASE k = "videoId" -> v
           [] k = "playlistId" -> p
           [] OTHER -> l] :
      D \in SUBSET {"videoId", "playlistId", "videoIds"},
      v \in {"", "v1"}, p \in {"", "X"}, l \in IdLists }

InitResolver ==
    /\ InitStore
    /\ videoConfig \in Configs
    /\ InitComponents
    /\ InitCalls

NgOnInit == \E s \in Surfaces : ngOnInit(s)

NextResolver == NgOnInit

SpecResolver == InitResolver /\ [][NextResolver]_vars

----------------------------------------------------------------------------
(* VideoPlayer: the player surface *)

destroyed(s) == player[s].phase = "destroyed"

\* What a call on the handle of a destroyed youtube-player does is not
\* defined by this code: it may throw, which ends the callback, or do nothing
Throws(s) == IF destroyed(s) THEN BOOLEAN ELSE {FALSE}

seekTo(s, t) == [engine EXCEPT ![s].time = IF destroyed(s) THEN @ ELSE t]

\* the telemetry the tick, onStateChange and the destroy flush push
telemetry(time, state) ==
    [currentTime |-> time, playerState |-> state, isPlaying |-> (state = PLAYING)]

\* the setInterval timers of s after onPlayerReady: a main surface clears
\* the timer its field holds, if any, and starts one
intervalsAfterReadyNoClear(s) ==
    IF isMainPlayer(s) THEN timers[s].interval + 1 ELSE timers[s].interval

intervalsAfterReady(s) ==
    IF isMainPlayer(s)
    THEN (IF player[s].saveStateInterval THEN timers[s].interval - 1
                                         ELSE timers[s].interval) + 1
    ELSE timers[s].interval

onPlayerReadyNoAssign(s) ==
    /\ player[s].phase = "configured"
    /\ player' = [player EXCEPT ![s] =
          [@ EXCEPT !.hasPlayer = TRUE,
                    !.isPlayerReady = TRUE,
                    !.saveStateInterval = IF isMainPlayer(s) THEN TRUE ELSE @]]
    /\ noCall
    /\ timers' = [timers EXCEPT ![s] =
          IF videoStateSubject.currentTime > 0
          THEN [@ EXCEPT !.seek = videoStateSubject.currentTime,
                         !.interval = intervalsAfterReady(s)]
          ELSE [@ EXCEPT !.play1000 = TRUE,
                         !.interval = intervalsAfterReady(s)]]
    /\ issued' = NoCmds
    /\ UNCHANGED <<callVars, now, videoConfig, engine>>

\* onPlayerReady, the first time or again
onPlayerReady(s) ==
    /\ player[s].phase = "configured"
    /\ player' = [player EXCEPT ![s] =
          [@ EXCEPT !.hasPlayer = TRUE,
                    !.isPlayerReady = TRUE,
                    !.saveStateInterval = IF isMainPlayer(s) THEN TRUE ELSE @]]
    /\ IF isMainPlayer(s) THEN setActivePlayer(s) ELSE noCall
    /\ timers' = [timers EXCEPT ![s] =
          IF videoStateSubject.currentTime > 0
          THEN [@ EXCEPT !.seek = videoStateSubject.currentTime,
                         !.interval = intervalsAfterReady(s)]
          ELSE [@ EXCEPT !.play1000 = TRUE,
                         !.interval = intervalsAfterReady(s)]]
    /\ issued' = NoCmds
    /\ UNCHANGED <<callVars, now, videoConfig, engine>>

saveStateTickNoPlay(s) ==
    /\ timers[s].interval > 0
    /\ IF player[s].hasPlayer /\ player[s].isPlayerReady
         THEN /\ issued' = [surface |-> s, cmds |-> <<>>]
              /\ updateState(telemetry(engine[s].time, engine[s].state), s)
         ELSE /\ issued' = NoCmds
              /\ noCall
    /\ UNCHANGED <<callVars, now, videoConfig, player, engine, timers>>

saveStateTickUngated(s) ==
    /\ timers[s].interval > 0
    /\ IF player[s].hasPlayer /\ player[s].isPlayerReady
         THEN /\ issued' = [surface |-> s,
                            cmds |-> IF engine[s].state # PLAYING /\ engine[s].state # ENDED
                                     THEN <<"playVideo">> ELSE <<>>]
              /\ updateStateNoGate(telemetry(engine[s].time, engine[s].state), s)
         ELSE /\ issued' = NoCmds
              /\ noCall
    /\ UNCHANGED <<callVars, now, videoConfig, player, engine, timers>>

\* one run of the setInterval callback
saveStateTick(s) ==
    /\ timers[s].interval > 0
    /\ IF player[s].hasPlayer /\ player[s].isPlayerReady
         THEN /\ issued' = [surface |-> s,
                            cmds |-> IF engine[s].state # PLAYING /\ engine[s].state # ENDED
                                     THEN <<"playVideo">> ELSE <<>>]
              /\ updateState(telemetry(engine[s].time, engine[s].state), s)
         ELSE /\ issued' = NoCmds
              /\ noCall
    /\ UNCHANGED <<callVars, now, videoConfig, player, engine, timers>>

seekTimeoutMuteAll(s) ==
    /\ timers[s].seek # -1
    /\ \E throws \in Throws(s) :
          /\ issued' = [surface |-> s,
                        cmds |-> IF throws THEN <<"seekTo">> ELSE <<"seekTo", "mute">>]
          /\ engine' = IF destroyed(s) THEN engine
                       ELSE [engine EXCEPT ![s].time = timers[s].seek,
                                           ![s].muted = TRUE]
          /\ timers' = [timers EXCEPT ![s].seek = -1,
                                      ![s].play200 = IF throws THEN @ ELSE TRUE]
    /\ noCall
    /\ UNCHANGED <<callVars, now, videoConfig, player>>

\* the 500 ms callback of the resume branch
seekTimeout(s) ==
    /\ timers[s].seek # -1
    /\ \E throws \in Throws(s) :
          /\ issued' = [surface |-> s,
                        cmds |-> IF throws \/ isMainPlayer(s)
                                 THEN <<"seekTo">> ELSE <<"seekTo", "mute">>]
          /\ engine' = IF destroyed(s) THEN engine
                       ELSE [engine EXCEPT ![s].time = timers[s].seek,
                                           ![s].muted = IF isMainPlayer(s) THEN @ ELSE TRUE]
          /\ timers' = [timers EXCEPT ![s].seek = -1,
                                      ![s].play200 = IF throws THEN @ ELSE TRUE]
    /\ noCall
    /\ UNCHANGED <<callVars, now, videoConfig, player>>

\* the nested 200 ms callback of the resume branch
playTimeout200(s) ==
    /\ timers[s].play200
    /\ timers' = [timers EXCEPT ![s].play200 = FALSE]
    /\ issued' = [surface |-> s, cmds |-> <<"playVideo">>]
    /\ \E throws \in Throws(s) :
          IF throws THEN noCall ELSE updateState([isPlaying |-> TRUE], s)
    /\ UNCHANGED <<callVars, now, videoConfig, player, engine>>

playTimeout1000AsResume(s) ==
    /\ timers[s].play1000
    /\ timers' = [timers EXCEPT ![s].play1000 = FALSE]
    /\ issued' = [surface |-> s, cmds |-> <<"playVideo">>]
    /\ \E throws \in Throws(s) :
          IF throws THEN noCall ELSE updateState([isPlaying |-> TRUE], s)
    /\ UNCHANGED <<callVars, now, videoConfig, player, engine>>

\* the 1000 ms callback of the branch without a saved position
playTimeout1000(s) ==
    /\ timers[s].play1000
    /\ timers' = [timers EXCEPT ![s].play1000 = FALSE]
    /\ issued' = [surface |-> s, cmds |-> <<"playVideo">>]
    /\ \E throws \in Throws(s) :
          IF throws THEN noCall
          ELSE updateState([isPlaying |-> TRUE, playerState |-> PLAYING,
                            currentTime |-> 0], s)
    /\ UNCHANGED <<callVars, now, videoConfig, player, engine>>

\* the engine changes state and reports it: onStateChange(event), event.data = data
onStateChange(s, data) ==
    /\ player[s].isPlayerReady
    /\ ~destroyed(s)
    /\ data # engine[s].state
    /\ engine' = [engine EXCEPT ![s].state = data]
    /\ issued' = NoCmds
    /\ IF isMainPlayer(s) /\ player[s].hasPlayer /\ player[s].isPlayerReady
         THEN IF data = ENDED
              THEN /\ timers[s].ended < MaxPending
                   /\ timers' = [timers EXCEPT ![s].ended = @ + 1]
                   /\ noCall
              ELSE /\ updateState(telemetry(engine[s].time, data), s)
                   /\ UNCHANGED timers
         ELSE /\ noCall
              /\ UNCHANGED timers
    /\ UNCHANGED <<callVars, now, videoConfig, player>>

\* the 100 ms callback scheduled when the engine reported ENDED
endedTimeoutNoPush(s) ==
    /\ timers[s].ended > 0
    /\ timers' = [timers EXCEPT ![s].ended = @ - 1]
    /\ \E throws \in Throws(s) :
          /\ issued' = [surface |-> s,
                        cmds |-> IF throws THEN <<"seekTo">> ELSE <<"seekTo", "playVideo">>]
          /\ noCall
    /\ engine' = seekTo(s, 0)
    /\ UNCHANGED <<callVars, now, videoConfig, player>>

endedTimeout(s) ==
    /\ timers[s].ended > 0
    /\ timers' = [timers EXCEPT ![s].ended = @ - 1]
    /\ \E throws \in Throws(s) :
          /\ issued' = [surface |-> s,
                        cmds |-> IF throws THEN <<"seekTo">> ELSE <<"seekTo", "playVideo">>]
          /\ IF throws THEN noCall
             ELSE updateState([currentTime |-> 0, isPlaying |-> TRUE,
                               playerState |-> PLAYING], s)
    /\ engine' = seekTo(s, 0)
    /\ UNCHANGED <<callVars, now, videoConfig, player>>

\* playback advances while the engine plays
enginePlays(s) ==
    /\ player[s].isPlayerReady
    /\ ~destroyed(s)
    /\ engine[s].state = PLAYING
    /\ engine[s].time < MaxTime
    /\ engine' = [engine EXCEPT ![s].time = @ + 1]
    /\ issued' = NoCmds
    /\ noCall
    /\ UNCHANGED <<callVars, now, videoConfig, player, timers>>

ngOnDestroyGated(s) ==
    /\ player[s].phase = "configured"
    /\ player' = [player EXCEPT ![s] =
          [@ EXCEPT !.phase = "destroyed"]]
    /\ IF player[s].hasPlayer /\ player[s].isPlayerReady
         THEN updateState(
                  With(telemetry(engine[s].time, engine[s].state), "lastUpdate", now), s)
         ELSE noCall
    /\ timers' = [timers EXCEPT ![s].interval =
                      IF player[s].saveStateInterval THEN @ - 1 ELSE @]
    /\ engine' = [engine EXCEPT ![s] = newEngine]
    /\ issued' = NoCmds
    /\ UNCHANGED <<callVars, now, videoConfig>>

ngOnDestroyReleases(s) ==
    /\ player[s].phase = "configured"
    /\ player' = [player EXCEPT ![s] =
          [@ EXCEPT !.phase = "destroyed"]]
    /\ IF player[s].hasPlayer /\ player[s].isPlayerReady
         THEN /\ lastCall' =
                    [op |-> "forceUpdateState",
                     state |-> With(telemetry(engine[s].time, engine[s].state),
                                    "lastUpdate", now),
                     playerId |-> NoId]
              /\ next(Spread(videoStateSubject,
                             With(telemetry(engine[s].time, engine[s].state),
                                  "lastUpdate", now)))
         ELSE /\ lastCall' = NoCall
              /\ UNCHANGED <<videoStateSubject, received>>
    /\ activePlayerId' = IF activePlayerId = s THEN NoId ELSE activePlayerId
    /\ UNCHANGED subscribed
    /\ timers' = [timers EXCEPT ![s].interval =
                      IF player[s].saveStateInterval THEN @ - 1 ELSE @]
    /\ engine' = [engine EXCEPT ![s] = newEngine]
    /\ issued' = NoCmds
    /\ UNCHANGED <<callVars, now, videoConfig>>

\* ngOnDestroy: clear the interval the field holds and flush the position;
\* the engine goes away with the view
ngOnDestroy(s) ==
    /\ player[s].phase = "configured"
    /\ player' = [player EXCEPT ![s] =
          [@ EXCEPT !.phase = "destroyed"]]
    /\ IF player[s].hasPlayer /\ player[s].isPlayerReady
         THEN forceUpdateState(
                  With(telemetry(engine[s].time, engine[s].state), "lastUpdate", now))
         ELSE noCall
    /\ timers' = [timers EXCEPT ![s].interval =
                      IF player[s].saveStateInterval THEN @ - 1 ELSE @]
    /\ engine' = [engine EXCEPT ![s] = newEngine]
    /\ issued' = NoCmds
    /\ UNCHANGED <<callVars, now, videoConfig>>

syncWithPlaysAnySurface(s, time, state) ==
    /\ ~destroyed(s)
    /\ IF player[s].hasPlayer /\ player[s].isPlayerReady
         THEN /\ engine' = seekTo(s, time)
              /\ issued' = [surface |-> s,
                            cmds |-> IF state = PLAYING
                                     THEN <<"seekTo", "playVideo">>
                                     ELSE IF state = PAUSED
                                     THEN <<"seekTo", "pauseVideo">>
                                     ELSE <<"seekTo">>]
         ELSE /\ issued' = NoCmds
              /\ UNCHANGED engine
    /\ noCall
    /\ UNCHANGED <<callVars, now, videoConfig, player, timers>>

\* syncWith(time, state), called on a surface that has not been destroyed
\* (nothing in the application calls it; a parent reaches the component only
\* while its view exists)
syncWith(s, time, state) ==
    /\ ~destroyed(s)
    /\ IF player[s].hasPlayer /\ player[s].isPlayerReady
         THEN /\ engine' = seekTo(s, time)
              /\ issued' = [surface |-> s,
                            cmds |-> IF state = PLAYING /\ isMainPlayer(s)
                                     THEN <<"seekTo", "playVideo">>
                                     ELSE IF state = PAUSED
                                     THEN <<"seekTo", "pauseVideo">>
                                     ELSE <<"seekTo">>]
         ELSE /\ issued' = NoCmds
              /\ UNCHANGED engine
    /\ noCall
    /\ UNCHANGED <<callVars, now, videoConfig, player, timers>>

----------------------------------------------------------------------------
(* The main surfaces, created, driven by their engines and timers, and      *)
(* destroyed in any order; two of them may be alive at the same time        *)

\* the states the engines of the model report
EngineCodes == {ENDED, PLAYING, PAUSED}

Init ==
    /\ InitStore
    /\ videoConfig = fixedVideoConfig
    /\ InitComponents
    /\ InitCalls

Mains == {s \in Surfaces : isMainPlayer(s)}

Create == \E s \in Mains : ngOnInit(s)
\* the engine of a surface reports ready once
Ready == \E s \in Surfaces : ~player[s].isPlayerReady /\ onPlayerReady(s)
IntervalFires == \E s \in Surfaces : saveStateTick(s)
SeekTimeoutFires == \E s \in Surfaces : seekTimeout(s)
Play200Fires == \E s \in Surfaces : playTimeout200(s)
Play1000Fires == \E s \in Surfaces : playTimeout1000(s)
EngineReports == \E s \in Surfaces, data \in EngineCodes : onStateChange(s, data)
EndedTimeoutFires == \E s \in Surfaces : endedTimeout(s)
EnginePlays == \E s \in Surfaces : enginePlays(s)
Destroy == \E s \in Surfaces : ngOnDestroy(s)

Next ==
    \/ Create
    \/ Ready
    \/ IntervalFires
    \/ SeekTimeoutFires
    \/ Play200Fires
    \/ Play1000Fires
    \/ EngineReports
    \/ EndedTimeoutFires
    \/ EnginePlays
    \/ Destroy

Spec == Init /\ [][Next]_vars

----------------------------------------------------------------------------
(* One main surface and one follower, created, driven and destroyed in any  *)
(* order                                                                    *)

Pair == {"player_m1", "player_f1"}

CreatePair == \E s \in Pair : ngOnInit(s)

NextFollower ==
    \/ CreatePair
    \/ Ready
    \/ IntervalFires
    \/ SeekTimeoutFires
    \/ Play200Fires
    \/ Play1000Fires
    \/ EngineReports
    \/ EndedTimeoutFires
    \/ EnginePlays
    \/ Destroy

SpecFollower == Init /\ [][NextFollower]_vars

\* The browser runs a due setTimeout callback and keeps running a setInterval
\* callback until it is cleared
TimersFire ==
    \A s \in Pair :
        /\ WF_vars(saveStateTick(s))
        /\ WF_vars(seekTimeout(s))
        /\ WF_vars(playTimeout200(s))
        /\ WF_vars(playTimeout1000(s))
        /\ WF_vars(endedTimeout(s))

FairSpecFollower == SpecFollower /\ TimersFire

----------------------------------------------------------------------------
(* The same pair of surfaces with an engine that may report ready again     *)
(* once the bootstrap of its surface has run                                *)

bootstrapDone(s) ==
    /\ timers[s].seek = -1
    /\ ~timers[s].play200
    /\ ~timers[s].play1000

ReadyAgain ==
    \E s \in Pair :
        /\ player[s].isPlayerReady
        /\ bootstrapDone(s)
        /\ onPlayerReady(s)

NextReadyAgain ==
    \/ CreatePair
    \/ Ready
    \/ ReadyAgain
    \/ IntervalFires
    \/ SeekTimeoutFires
    \/ Play200Fires
    \/ Play1000Fires
    \/ EngineReports
    \/ EndedTimeoutFires
    \/ EnginePlays
    \/ Destroy

SpecReadyAgain == Init /\ [][NextReadyAgain]_vars

----------------------------------------------------------------------------
(* The pair of surfaces with a caller of syncWith                           *)

\* the desired states a caller passes: one for each branch of syncWith
SyncStates == {PLAYING, PAUSED, BUFFERING}

SyncWith == \E s \in Pair, time \in Times, state \in SyncStates : syncWith(s, time, state)

NextSync ==
    \/ CreatePair
    \/ Ready
    \/ IntervalFires
    \/ SeekTimeoutFires
    \/ Play200Fires
    \/ Play1000Fires
    \/ EngineReports
    \/ EndedTimeoutFires
    \/ EnginePlays
    \/ Destroy
    \/ SyncWith

SpecSync == Init /\ [][NextSync]_vars

----------------------------------------------------------------------------
(* The call queue: calls generated by the 30 s interval or directly, their  *)
(* 15 s timeouts, the containers subscribing, and the audio switch          *)

generateNewCallUntrimmed(doctor, guichet) ==
    LET g == generateCall(calls, doctor, guichet)
        history == <<g.call>> \o calls.callHistory
    IN  /\ calls.generated < MaxCalls
        /\ calls' = [calls EXCEPT !.specialtyCounters = g.counters,
                                  !.generated = @ + 1,
                                  !.callHistory = history,
                                  !.currentCallSubject = g.call,
                                  !.callHistorySubject = history,
                                  !.currentStateSubject = CALLING,
                                  !.pending = @ + 1]
        /\ audio' = playCallTone(audio)
        /\ highlight' = stateToHighlight(callToHighlight(highlight, g.call), CALLING)
        /\ sidebar' = stateToSidebar(historyToSidebar(sidebar, history), CALLING)
        /\ noSurface

\* CallService.generateNewCall, the subscribers' callbacks included; the
\* 15 s timeout is left pending
generateNewCall(doctor, guichet) ==
    LET g == generateCall(calls, doctor, guichet)
        unshifted == <<g.call>> \o calls.callHistory
        history == IF Len(unshifted) > 4 THEN slice(unshifted, 0, 4) ELSE unshifted
    IN  /\ calls.generated < MaxCalls
        /\ calls' = [calls EXCEPT !.specialtyCounters = g.counters,
                                  !.generated = @ + 1,
                                  !.callHistory = history,
                                  !.currentCallSubject = g.call,
                                  !.callHistorySubject = history,
                                  !.currentStateSubject = CALLING,
                                  !.pending = @ + 1]
        /\ audio' = playCallTone(audio)
        /\ highlight' = stateToHighlight(callToHighlight(highlight, g.call), CALLING)
        /\ sidebar' = stateToSidebar(historyToSidebar(sidebar, history), CALLING)
        /\ noSurface

callTimeoutKeepsCall ==
    /\ calls.pending > 0
    /\ calls' = [calls EXCEPT !.pending = @ - 1,
                              !.currentStateSubject = DEFAULT]
    /\ highlight' = stateToHighlight(highlight, DEFAULT)
    /\ sidebar' = stateToSidebar(sidebar, DEFAULT)
    /\ audio' = [audio EXCEPT !.tone = FALSE]
    /\ noSurface

\* the 15 s callback of generateNewCall
callTimeout ==
    /\ calls.pending > 0
    /\ calls' = [calls EXCEPT !.pending = @ - 1,
                              !.currentStateSubject = DEFAULT,
                              !.currentCallSubject = nullCall]
    /\ highlight' = callToHighlight(stateToHighlight(highlight, DEFAULT), nullCall)
    /\ sidebar' = stateToSidebar(sidebar, DEFAULT)
    /\ audio' = [audio EXCEPT !.tone = FALSE]
    /\ noSurface

\* App.ngOnInit: CallService.startAutoCall
startAutoCall ==
    /\ ~calls.autoCall
    /\ calls' = [calls EXCEPT !.autoCall = TRUE]
    /\ audio' = [audio EXCEPT !.tone = FALSE]
    /\ UNCHANGED <<highlight, sidebar>>
    /\ noSurface

autoCallTickAnyState ==
    /\ calls.autoCall
    /\ \E doctor \in mockDoctors, guichet \in Guichets :
          generateNewCall(doctor, guichet)

\* the 30 s callback of startAutoCall
autoCallTick ==
    /\ calls.autoCall
    /\ IF calls.currentStateSubject = DEFAULT
         THEN \E doctor \in mockDoctors, guichet \in Guichets :
                 generateNewCall(doctor, guichet)
         ELSE /\ audio' = [audio EXCEPT !.tone = FALSE]
              /\ UNCHANGED <<calls, highlight, sidebar>>
              /\ noSurface

\* Highlight.ngOnInit: each subscription delivers the current value at once
highlightNgOnInit ==
    /\ ~highlight.subscribed
    /\ highlight' = highlightOnCall(
                        highlightOnState([highlight EXCEPT !.subscribed = TRUE],
                                         calls.currentStateSubject),
                        calls.currentCallSubject)
    /\ audio' = [audio EXCEPT !.tone = FALSE]
    /\ UNCHANGED <<calls, sidebar>>
    /\ noSurface

\* Sidebar.ngOnInit: setupSubscriptions, then loadInitialData
sidebarNgOnInit ==
    /\ ~sidebar.subscribed
    /\ sidebar' = loadInitialData(
                      sidebarOnAudio(
                          sidebarOnHistory(
                              sidebarOnState([sidebar EXCEPT !.subscribed = TRUE],
                                             calls.currentStateSubject),
                              calls.callHistorySubject),
                          audio.audioEnabledSubject),
                      calls)
    /\ audio' = [audio EXCEPT !.tone = FALSE]
    /\ UNCHANGED <<calls, highlight>>
    /\ noSurface

\* AudioService.toggleAudio: disableAudio at once, or enableAudio, whose
\* silent play() settles later
toggleAudio ==
    /\ IF audio.isAudioEnabled
         THEN /\ audio' = [audio EXCEPT !.isAudioEnabled = FALSE,
                                        !.audioEnabledSubject = FALSE,
                                        !.tone = FALSE]
              /\ sidebar' = audioToSidebar(sidebar, FALSE)
         ELSE /\ audio.enabling < MaxPending
              /\ audio' = [audio EXCEPT !.enabling = @ + 1, !.tone = FALSE]
              /\ UNCHANGED sidebar
    /\ UNCHANGED <<calls, highlight>>
    /\ noSurface

\* the silent play() of enableAudio resolves or is rejected
enableSettles ==
    /\ audio.enabling > 0
    /\ \E resolved \in BOOLEAN :
          IF resolved
          THEN /\ audio' = [audio EXCEPT !.enabling = @ - 1,
                                         !.isAudioEnabled = TRUE,
                                         !.audioEnabledSubject = TRUE,
                                         !.tone = FALSE]
               /\ sidebar' = audioToSidebar(sidebar, TRUE)
          ELSE /\ audio' = [audio EXCEPT !.enabling = @ - 1, !.tone = FALSE]
               /\ UNCHANGED sidebar
    /\ UNCHANGED <<calls, highlight>>
    /\ noSurface

AppInit == startAutoCall
AutoCallFires == autoCallTick
ApiGenerateNewCall ==
    \E doctor \in mockDoctors, guichet \in Guichets : generateNewCall(doctor, guichet)
CallTimeoutFires == callTimeout
HighlightInit == highlightNgOnInit
SidebarInit == sidebarNgOnInit
ToggleAudio == toggleAudio
EnableSettles == enableSettles

NextCalls ==
    \/ AppInit
    \/ AutoCallFires
    \/ ApiGenerateNewCall
    \/ CallTimeoutFires
    \/ HighlightInit
    \/ SidebarInit
    \/ ToggleAudio
    \/ EnableSettles

SpecCalls == Init /\ [][NextCalls]_vars

\* the browser runs a due 15 s timeout
FairSpecCalls == SpecCalls /\ WF_vars(callTimeout)

\* the application as it ships: the automatic timer is the only caller of
\* generateNewCall
NextAutoCalls ==
    \/ AppInit
    \/ AutoCallFires
    \/ CallTimeoutFires
    \/ HighlightInit
    \/ SidebarInit
    \/ ToggleAudio
    \/ EnableSettles

SpecAutoCalls == Init /\ [][NextAutoCalls]_vars

----------------------------------------------------------------------------
(* Properties of the store *)

\* The call is a write the gate lets through, given the token at the call
Authorized(call, token) ==
    \/ call.op = "forceUpdateState"
    \/ /\ call.op = "updateState"
       /\ (~Truthy(token) \/ token = call.playerId)

Rejected(call, token) ==
    /\ call.op = "updateState"
    /\ Truthy(token)
    /\ token # call.playerId

\* The fields of VideoState other than the stamp
DataFields == Fields \ {"lastUpdate"}

\* The fields of `state` are in `new`; the other data fields are those of `old`
Merged(old, state, new) ==
    \A f \in DataFields :
        new[f] = IF f \in DOMAIN state THEN state[f] ELSE old[f]

\* C1: an updateState(partial, id) issued while the authority token is
\* non-empty and different from id leaves the store unchanged (all four
\* fields keep their values) and delivers nothing to any subscriber.
C1_NonAuthorityUpdateIsNoOp ==
    [][Rejected(lastCall', activePlayerId)
         => /\ videoStateSubject' = videoStateSubject
            /\ received' = received]_vars

C1_Witness ==
    /\ Rejected(lastCall, activePlayerId)
    /\ "obs1" \in subscribed
    /\ "currentTime" \in DOMAIN lastCall.state
    /\ lastCall.state.currentTime # videoStateSubject.currentTime

\* C2: an updateState(partial, id) issued while the token is empty or equal
\* to id succeeds for any id: the data fields present in partial are
\* replaced, the other data fields keep their values, and the new state is
\* delivered exactly once to every subscriber.
C2_AuthorizedUpdateMerges ==
    [][(lastCall'.op = "updateState" /\ Authorized(lastCall', activePlayerId))
         => /\ Merged(videoStateSubject, lastCall'.state, videoStateSubject')
            /\ \A o \in subscribed :
                  received'[o] = Append(received[o], videoStateSubject')]_vars

C2_Witness ==
    /\ lastCall.op = "updateState"
    /\ activePlayerId = NoId
    /\ DOMAIN lastCall.state = {"isPlaying"}
    /\ videoStateSubject.isPlaying
    /\ videoStateSubject.playerState = UNSTARTED
    /\ "obs1" \in subscribed
    /\ Len(received["obs1"]) = 2

C6_SubscribersSeeEveryStateInOrder ==
    [][/\ lastCall'.op = "subscribe"
            => /\ received'[lastCall'.playerId] = <<videoStateSubject>>
               /\ videoStateSubject' = videoStateSubject
       /\ \A o \in subscribed :
            received'[o] =
                IF Authorized(lastCall', activePlayerId)
                THEN Append(received[o], videoStateSubject')
                ELSE received[o]]_vars

C6_Witness ==
    /\ subscribed = Observers
    /\ Len(received["obs1"]) = 3
    /\ Len(received["obs2"]) = 2
    /\ received["obs1"][2] # received["obs1"][3]
    /\ received["obs2"] = <<received["obs1"][2], received["obs1"][3]>>

----------------------------------------------------------------------------
(* Properties of the media source resolver *)

Configured == {s \in Surfaces : player[s].phase # "constructed"}

hasVideoIds(src) == "videoIds" \in DOMAIN src

\* the single item id of the configuration, or the fixed fallback id
singleOrFallback ==
    IF "videoId" \in DOMAIN videoConfig /\ videoConfig.videoId # ""
    THEN videoConfig.videoId ELSE "dQw4w9WgXcQ"

\* C7: with both a collection id and an item list set, the engine
\* configuration uses the collection id (listType and list set, no explicit
\* playlist) and the item list is ignored, also for the primary target: the
\* target is the one the same configuration without the item list gets.
C7_CollectionIdIgnoresItemList ==
    \A s \in Configured :
        LET src == player[s].source
            pc == player[s].playerConfig
        IN (hasPlaylistId(src) /\ hasVideoIds(src))
             => /\ "listType" \in DOMAIN pc /\ pc.listType = "playlist"
                /\ "list" \in DOMAIN pc /\ pc.list = src.playlistId
                /\ "playlist" \notin DOMAIN pc
                /\ getVideoId(src) = getVideoId(Without(src, {"videoIds"}))

\* C8: with no collection id and an item list longer than 1, the explicit
\* playlist is the list without its first element, in order, the primary
\* target is the first element, listType and list are omitted and the start
\* index is 0.
C8_ItemListSplitsHeadAndTail ==
    \A s \in Configured :
        LET src == player[s].source
            pc == player[s].playerConfig
        IN (~hasPlaylistId(src) /\ hasVideoIds(src) /\ Len(src.videoIds) > 1)
             => /\ "playlist" \in DOMAIN pc
                /\ pc.playlist = Tail(src.videoIds)
                /\ getVideoId(src) = Head(src.videoIds)
                /\ "listType" \notin DOMAIN pc
                /\ "list" \notin DOMAIN pc
                /\ pc.index = 0

C8_Witness ==
    \E s \in Configured :
        /\ "playlistId" \notin DOMAIN videoConfig
        /\ "videoId" \notin DOMAIN videoConfig
        /\ hasVideoIds(player[s].source)
        /\ player[s].source.videoIds = <<"a", "b", "c">>
        /\ "playlist" \in DOMAIN player[s].playerConfig
        /\ player[s].playerConfig.playlist = <<"b", "c">>
        /\ getVideoId(player[s].source) = "a"

\* the configuration is in single-item mode: no collection id, and the item
\* list absent, empty or of one element
SingleItemMode(src) ==
    /\ ~hasPlaylistId(src)
    /\ hasVideoIds(src) => Len(src.videoIds) <= 1

NoListKeys(pc) == DOMAIN pc \cap {"listType", "list", "playlist"} = {}

----------------------------------------------------------------------------
(* Properties of the ENDED recovery *)

\* The 100 ms recovery callback of surface s runs in this step
Recovers(s) == timers'[s].ended < timers[s].ended

\* what the recovery pushes
recoveryState == [currentTime |-> 0, isPlaying |-> TRUE, playerState |-> PLAYING]

Recovered(st) == \A f \in DOMAIN recoveryState : st[f] = recoveryState[f]

\* C10 as stated, read for a surface that is still alive when the delay
\* elapses: whenever the engine of a ready main surface reported ENDED, right
\* after its recovery callback has run the store holds currentTime = 0,
\* isPlaying = true and playerState = PLAYING.
C10_EndedRecoveryReachesStore ==
    [][\A s \in Surfaces :
          Recovers(s) /\ ~destroyed(s) => Recovered(videoStateSubject')]_vars

\* C10, amended: the recovery callback of a main surface that is still alive
\* seeks to 0, plays and pushes {currentTime 0, isPlaying true, playerState
\* PLAYING} through the gated updateState under its own id; the store holds
\* these values right after the callback if that surface holds the authority
\* token at that moment, and is left as it was if another surface holds it.
C10_EndedRecoveryUnderAuthority ==
    [][\A s \in Surfaces :
          Recovers(s) /\ ~destroyed(s) =>
             /\ isMainPlayer(s)
             /\ issued' = [surface |-> s, cmds |-> <<"seekTo", "playVideo">>]
             /\ engine'[s].time = 0
             /\ lastCall' = [op |-> "updateState", state |-> recoveryState,
                             playerId |-> s]
             /\ IF activePlayerId = s
                  THEN Recovered(videoStateSubject')
                  ELSE videoStateSubject' = videoStateSubject]_vars

\* The recovery of a live main surface holding the token has just run, its
\* engine still standing at ENDED
C10_Witness ==
    /\ lastCall = [op |-> "updateState", state |-> recoveryState,
                   playerId |-> activePlayerId]
    /\ issued = [surface |-> activePlayerId, cmds |-> <<"seekTo", "playVideo">>]
    /\ ~destroyed(activePlayerId)
    /\ engine[activePlayerId].state = ENDED
    /\ Recovered(videoStateSubject)


----------------------------------------------------------------------------
(* Properties of the bootstrap *)

\* the ready callback of surface s runs in this step
BecomesReady(s) == ~player[s].isPlayerReady /\ player'[s].isPlayerReady

\* the 500 ms, 200 ms and 1000 ms callbacks of surface s run in this step
SeekRuns(s) == timers[s].seek # -1 /\ timers'[s].seek = -1
Play200Runs(s) == timers[s].play200 /\ ~timers'[s].play200
Play1000Runs(s) == timers[s].play1000 /\ ~timers'[s].play1000

noResumeState == [isPlaying |-> TRUE, playerState |-> PLAYING, currentTime |-> 0]

\* The main surface, ready from the default store, has just pushed the
\* no-resume state, and the follower has not been constructed yet
MainPushedFromDefault ==
    /\ lastCall = [op |-> "updateState", state |-> noResumeState,
                   playerId |-> "player_m1"]
    /\ issued = [surface |-> "player_m1", cmds |-> <<"playVideo">>]
    /\ ~destroyed("player_m1")
    /\ Recovered(videoStateSubject)
    /\ player["player_f1"].phase = "constructed"

\* The follower is ready with the seek of the resume branch pending
FollowerResumes ==
    /\ player["player_f1"].isPlayerReady
    /\ timers["player_f1"].seek # -1

\* C12 as stated, its scenario: once the main surface has become ready from
\* the default store and pushed the no-resume state, a follower constructed
\* afterwards takes the no-resume branch, that is, never has a seek pending.
C12_FollowerAfterMainPushTakesNoResume ==
    [](MainPushedFromDefault => [](~FollowerResumes))

\* C12, amended: a surface whose ready callback reads currentTime = 0 from the
\* store schedules the 1000 ms callback and no seek, and takes this branch
\* exactly when the store holds currentTime = 0 at that moment; a seek of the
\* bootstrap is only ever scheduled by a ready callback that reads a position
\* above 0; the 1000 ms callback of a live surface issues play() and calls
\* updateState({isPlaying: true, playerState: PLAYING, currentTime: 0}) under
\* the surface's own id.
C12_NoResumeBranch ==
    [][\A s \in Surfaces :
          /\ BecomesReady(s) =>
                /\ timers'[s].play1000 <=> videoStateSubject.currentTime = 0
                /\ timers'[s].play1000 => timers'[s].seek = -1 /\ ~timers'[s].play200
          /\ timers[s].seek = -1 /\ timers'[s].seek # -1 =>
                BecomesReady(s) /\ videoStateSubject.currentTime > 0
          /\ Play1000Runs(s) /\ ~destroyed(s) =>
                /\ issued' = [surface |-> s, cmds |-> <<"playVideo">>]
                /\ lastCall' = [op |-> "updateState", state |-> noResumeState,
                                playerId |-> s]
                /\ timers'[s].seek = -1 /\ ~timers'[s].play200]_vars

\* A live follower that read currentTime = 0 at its ready callback, after the
\* main surface had finished its own bootstrap, has just run its 1000 ms
\* callback
C12_Witness ==
    /\ lastCall = [op |-> "updateState", state |-> noResumeState,
                   playerId |-> "player_f1"]
    /\ issued = [surface |-> "player_f1", cmds |-> <<"playVideo">>]
    /\ ~destroyed("player_f1")
    /\ activePlayerId = "player_m1"
    /\ player["player_m1"].isPlayerReady
    /\ ~timers["player_m1"].play1000


----------------------------------------------------------------------------
(* Properties of the destroy flush *)

\* ngOnDestroy of surface s runs in this step
Destroys(s) == ~destroyed(s) /\ player'[s].phase = "destroyed"

\* C13: destroying a surface leaves it without a scheduler timer; exactly
\* when the surface has a ready engine handle the step makes one
\* forceUpdateState call carrying the engine's time and state code with
\* isPlaying = (state is PLAYING), and the store holds these values after the
\* step whoever holds the authority token; a surface destroyed before its
\* engine became ready makes no call and leaves the store as it was.
C13_DestroyFlushesOnce ==
    [][\A s \in Surfaces :
          Destroys(s) =>
             /\ timers'[s].interval = 0
             /\ IF player[s].hasPlayer /\ player[s].isPlayerReady
                  THEN /\ lastCall' =
                            [op |-> "forceUpdateState",
                             state |-> With(telemetry(engine[s].time, engine[s].state),
                                            "lastUpdate", now),
                             playerId |-> NoId]
                       /\ \A f \in DataFields :
                             videoStateSubject'[f] =
                                telemetry(engine[s].time, engine[s].state)[f]
                  ELSE /\ lastCall' = NoCall
                       /\ videoStateSubject' = videoStateSubject]_vars

\* The ready follower, which never held the token, has just been destroyed
\* while the main surface holds the token, and its flush of a position above 0
\* is in the store
C13_Witness ==
    /\ lastCall.op = "forceUpdateState"
    /\ destroyed("player_f1")
    /\ player["player_f1"].isPlayerReady
    /\ ~destroyed("player_m1")
    /\ activePlayerId = "player_m1"
    /\ lastCall.state.currentTime > 0
    /\ videoStateSubject.currentTime = lastCall.state.currentTime


----------------------------------------------------------------------------
(* Properties of the scheduler tick *)

\* the setInterval callback of surface s runs in this step: the only step that
\* issues in the name of s, pushes telemetry and leaves every timeout alone
TickRuns(s) ==
    /\ issued'.surface = s
    /\ lastCall'.op = "updateState"
    /\ lastCall'.playerId = s
    /\ DOMAIN lastCall'.state = DataFields
    /\ timers' = timers

\* the engine of the live ready main surface m is in a state the tick corrects
NeedsPlay(m) ==
    /\ player[m].isPlayerReady
    /\ ~destroyed(m)
    /\ engine[m].state \notin {PLAYING, ENDED}

\* the latest step sent play() to the engine of m
SentPlay(m) ==
    /\ issued.surface = m
    /\ \E i \in DOMAIN issued.cmds : issued.cmds[i] = "playVideo"

\* C14: a scheduler tick runs only on a live main surface and issues play()
\* exactly when the engine state it reads is neither PLAYING nor ENDED; and,
\* the timers firing, a live ready main surface whose engine is in such a
\* state is eventually sent play(), unless the engine leaves that state or the
\* surface is destroyed first.
C14_TickKeepsMainPlaying ==
    /\ [][\A s \in Surfaces :
             TickRuns(s) =>
                /\ isMainPlayer(s)
                /\ ~destroyed(s)
                /\ issued'.cmds = IF engine[s].state \notin {PLAYING, ENDED}
                                  THEN <<"playVideo">> ELSE <<>>]_vars
    /\ \A m \in Mains : NeedsPlay(m) ~> (SentPlay(m) \/ ~NeedsPlay(m))

\* A tick of the live main surface has just read PAUSED and issued play()
C14_Witness ==
    /\ issued = [surface |-> "player_m1", cmds |-> <<"playVideo">>]
    /\ lastCall.op = "updateState"
    /\ lastCall.playerId = "player_m1"
    /\ lastCall.state = telemetry(engine["player_m1"].time, PAUSED)
    /\ engine["player_m1"].state = PAUSED
    /\ ~destroyed("player_m1")


----------------------------------------------------------------------------
(* Properties of the follower *)

\* f is a follower with a ready engine handle that has not been destroyed
FollowerLive(f) ==
    /\ ~isMainPlayer(f)
    /\ player[f].isPlayerReady
    /\ ~destroyed(f)

\* a main surface replaces the state of the store in this step
MainPublishes ==
    /\ lastCall'.op = "updateState"
    /\ isMainPlayer(lastCall'.playerId)
    /\ videoStateSubject' # videoStateSubject

\* C15 as stated: every state a main surface publishes reaches each live
\* follower, which corrects its own engine, so that right after the
\* publication the follower's engine is at the position the store holds.
C15_FollowersMirrorTheStore ==
    [][\A f \in Surfaces :
          FollowerLive(f) /\ MainPublishes =>
             engine'[f].time = videoStateSubject'.currentTime]_vars


\* C16 as stated: no updateState call made by a follower changes the store,
\* whatever the authority token is at that moment, the empty token of a panel
\* where no main surface has been constructed included.
C16_FollowerNeverWritesTheStore ==
    [][\A f \in Surfaces :
          /\ ~isMainPlayer(f)
          /\ lastCall'.op = "updateState"
          /\ lastCall'.playerId = f
          => videoStateSubject' = videoStateSubject]_vars


----------------------------------------------------------------------------
(* Properties of the call queue *)

\* C17: the call history holds the min(number of calls, 4) most recent calls,
\* newest first; the value of the history stream is the same list, and a
\* subscribed Sidebar shows it.
C17_HistoryHoldsLastFour ==
    /\ Len(calls.callHistory) = (IF calls.generated < 4 THEN calls.generated ELSE 4)
    /\ \A i \in 1..Len(calls.callHistory) :
          calls.callHistory[i].id = calls.generated - i + 1
    /\ getLastCall(calls) =
          (IF calls.generated = 0 THEN nullCall ELSE calls.callHistory[1])
    /\ calls.callHistorySubject = calls.callHistory
    /\ sidebar.subscribed =>
          /\ sidebar.allHistory = calls.callHistory
          /\ sidebar.lastCall = getLastCall(calls)
          /\ sidebar.callHistory = getCallHistory(calls)

\* Five calls were generated: the history holds the calls 5, 4, 3, 2 and the
\* subscribed Sidebar shows them
C17_Witness ==
    /\ calls.generated = 5
    /\ Len(calls.callHistory) = 4
    /\ calls.callHistory[1].id = 5
    /\ calls.callHistory[4].id = 2
    /\ sidebar.subscribed
    /\ Len(sidebar.allHistory) = 4

\* C18: generateNewCall leaves the state CALLING with the new call as current
\* call; the 15 s callback leaves the state DEFAULT with a null current call;
\* in every state between operations the current call is non-null exactly
\* when the state is CALLING, and a timeout is then pending; the timeouts
\* firing, every CALLING state is followed by a DEFAULT state.
C18_CallingReturnsToDefault ==
    /\ [](/\ calls.currentCallSubject # nullCall
                <=> calls.currentStateSubject = CALLING
          /\ calls.currentStateSubject = CALLING => calls.pending > 0)
    /\ [][/\ calls'.generated > calls.generated =>
                /\ calls'.currentStateSubject = CALLING
                /\ calls'.currentCallSubject = calls'.callHistory[1]
                /\ calls'.currentCallSubject # nullCall
          /\ calls'.pending < calls.pending =>
                /\ calls'.currentStateSubject = DEFAULT
                /\ calls'.currentCallSubject = nullCall]_vars
    /\ (calls.currentStateSubject = CALLING) ~> (calls.currentStateSubject = DEFAULT)

\* A call was generated and its 15 s callback has run: the state is DEFAULT
\* again with no current call, as the subscribed Highlight sees it
C18_Witness ==
    /\ calls.generated > 0
    /\ calls.pending = 0
    /\ calls.currentStateSubject = DEFAULT
    /\ calls.currentCallSubject = nullCall
    /\ highlight.subscribed
    /\ ~highlight.isCallingState
    /\ highlight.currentCall = nullCall


----------------------------------------------------------------------------
(* Properties of the telemetry timer *)

\* C19: a surface has a running telemetry timer exactly when it is a main
\* surface that has received its ready callback and has not been destroyed,
\* and then it has one, also after a repeated ready callback; a follower
\* never has one; no tick runs on a destroyed surface.
C19_OneTimerOnLiveReadyMain ==
    /\ [](\A s \in Surfaces :
             /\ timers[s].interval \in {0, 1}
             /\ timers[s].interval = 1 <=>
                   isMainPlayer(s) /\ player[s].isPlayerReady /\ ~destroyed(s))
    /\ [][\A s \in Surfaces :
             TickRuns(s) =>
                isMainPlayer(s) /\ player[s].isPlayerReady /\ ~destroyed(s)]_vars

\* The live main surface has just received a ready callback again, after its
\* engine had played, and has one timer
C19_Witness ==
    /\ lastCall = [op |-> "setActivePlayer", state |-> NoPartial,
                   playerId |-> "player_m1"]
    /\ player["player_m1"].isPlayerReady
    /\ ~destroyed("player_m1")
    /\ engine["player_m1"].time > 0
    /\ ~bootstrapDone("player_m1")
    /\ timers["player_m1"].interval = 1


\* C20: a scheduler tick pushes the engine's time and state code as read at
\* the start of the tick, with isPlaying = (the state is PLAYING), under the
\* surface's own id, and issues play() when that state is neither PLAYING nor
\* ENDED; after a tick of the main surface that holds the authority token the
\* store holds the pushed values, and a tick of a main surface that has lost
\* the token leaves the store as it was while issuing the same command.
C20_TickPublishesTelemetryUnderAuthority ==
    [][\A s \in Surfaces :
          TickRuns(s) =>
             /\ lastCall'.state = telemetry(engine[s].time, engine[s].state)
             /\ issued'.cmds = IF engine[s].state \notin {PLAYING, ENDED}
                               THEN <<"playVideo">> ELSE <<>>
             /\ IF activePlayerId = s
                  THEN \A f \in DataFields :
                          videoStateSubject'[f] =
                             telemetry(engine[s].time, engine[s].state)[f]
                  ELSE /\ videoStateSubject' = videoStateSubject
                       /\ received' = received]_vars

\* The live main surface m1, having lost the token to m2, has just run a tick
\* that read PAUSED: it issued play() and the store does not hold PAUSED
C20_Witness ==
    /\ issued = [surface |-> "player_m1", cmds |-> <<"playVideo">>]
    /\ lastCall = [op |-> "updateState",
                   state |-> telemetry(engine["player_m1"].time, PAUSED),
                   playerId |-> "player_m1"]
    /\ ~destroyed("player_m1")
    /\ activePlayerId = "player_m2"
    /\ videoStateSubject.playerState # PAUSED


----------------------------------------------------------------------------
(* Properties of the authority token across the surfaces *)

\* ngOnInit of surface s runs in this step
Constructs(s) == player[s].phase = "constructed" /\ player'[s].phase = "configured"

\* this step is an operation of surface s: it changes the component, the
\* engine or the timers of s, issues a command in its name or calls the
\* service under its id
StepOf(s) ==
    \/ player'[s] # player[s]
    \/ engine'[s] # engine[s]
    \/ timers'[s] # timers[s]
    \/ issued'.surface = s
    \/ lastCall'.playerId = s

\* C21: the token changes only in a step that is the construction or the
\* ready callback of a main surface, and such a step leaves the token at
\* that surface's id; no step of a follower (construction, ready, bootstrap
\* callbacks, syncWith, destruction) changes the token.
C21_OnlyMainSurfacesAssignTheToken ==
    [][/\ activePlayerId' # activePlayerId =>
             \E m \in Mains : (Constructs(m) \/ BecomesReady(m)) /\ activePlayerId' = m
       /\ \A m \in Mains :
             Constructs(m) \/ BecomesReady(m) =>
                /\ lastCall' = [op |-> "setActivePlayer", state |-> NoPartial,
                                playerId |-> m]
                /\ activePlayerId' = m
       /\ \A f \in Surfaces \ Mains :
             StepOf(f) => activePlayerId' = activePlayerId]_vars

\* The follower, ready and synced to a pause, while the main surface that was
\* constructed and became ready holds the token
C21_Witness ==
    /\ issued = [surface |-> "player_f1", cmds |-> <<"seekTo", "pauseVideo">>]
    /\ player["player_f1"].isPlayerReady
    /\ bootstrapDone("player_f1")
    /\ player["player_m1"].isPlayerReady
    /\ activePlayerId = "player_m1"


----------------------------------------------------------------------------
(* Properties of the store under the surfaces' writes *)

\* C22: in every state of the store that the surfaces' writes produce,
\* isPlaying is true exactly when playerState is PLAYING.
C22_IsPlayingIffPlaying ==
    videoStateSubject.isPlaying <=> (videoStateSubject.playerState = PLAYING)


\* C23: once a ready surface has been destroyed, no later step issues an
\* engine command in its name or calls the service under its id, and the
\* store changes only in a step of a surface that is still alive, so the
\* position of the destroy flush stays until a live surface writes.
C23_DestroyedSurfaceStaysSilent ==
    [][\A s \in Surfaces :
          destroyed(s) /\ player[s].isPlayerReady =>
             /\ issued'.surface # s
             /\ lastCall'.playerId # s
             /\ videoStateSubject' # videoStateSubject =>
                   \E a \in Surfaces : ~destroyed(a) /\ StepOf(a)]_vars


----------------------------------------------------------------------------
(* Properties of the ENDED recovery on every surface *)

\* C24: whenever the engine of a ready surface, main or follower, reports
\* ENDED, the surface schedules its recovery, the callback that issues seek(0)
\* followed by play() on its own engine after the short delay.
C24_EveryReadySurfaceRecovers ==
    [][\A s \in Surfaces :
          (player[s].isPlayerReady /\ ~destroyed(s)
              /\ engine[s].state # ENDED /\ engine'[s].state = ENDED)
          => timers'[s].ended = timers[s].ended + 1]_vars


----------------------------------------------------------------------------
(* Properties of syncWith *)

\* the commands syncWith(time, state) is to issue on a ready surface s
syncCommands(s, state) ==
    <<"seekTo">> \o (IF state = PLAYING /\ isMainPlayer(s) THEN <<"playVideo">>
                     ELSE IF state = PAUSED THEN <<"pauseVideo">>
                     ELSE <<>>)

\* C25: syncWith(time, state) on a ready surface seeks its engine to time and
\* issues seek, then play only when state is PLAYING and the surface is the
\* main one, or pause when state is PAUSED, and nothing else; on a surface
\* that is not ready it issues nothing; it makes no call on the service and
\* leaves the store and the token as they were.  No step issues a command in
\* the name of a surface that is not ready, and a step that issues in the name
\* of a surface without a service call and without running a timeout, which
\* only syncWith does, issues one of these command lists.
C25_SyncWithCommandsOnly ==
    [][/\ lastCall' = NoCall /\ timers' = timers /\ player' = player =>
             \A s \in Surfaces, time \in Times, state \in SyncStates :
                (issued'.surface \in {s, NoId}) /\ syncWith(s, time, state) =>
                   /\ IF player[s].hasPlayer /\ player[s].isPlayerReady
                        THEN /\ issued' = [surface |-> s, cmds |-> syncCommands(s, state)]
                             /\ engine'[s].time = time
                        ELSE /\ issued' = NoCmds
                             /\ engine' = engine
                   /\ lastCall' = NoCall
                   /\ videoStateSubject' = videoStateSubject
                   /\ received' = received
                   /\ activePlayerId' = activePlayerId
       /\ \A s \in Surfaces :
             /\ issued'.surface = s => player[s].hasPlayer /\ player[s].isPlayerReady
             /\ issued'.surface = s /\ lastCall' = NoCall /\ timers' = timers =>
                   /\ \E state \in SyncStates : issued'.cmds = syncCommands(s, state)
                   /\ videoStateSubject' = videoStateSubject
                   /\ activePlayerId' = activePlayerId]_vars

\* The ready main surface has just been synced to position 1 with state
\* PLAYING: seek and play were issued, its engine is at 1, and the store,
\* still at position 0, was not written
C25_Witness ==
    /\ issued = [surface |-> "player_m1", cmds |-> <<"seekTo", "playVideo">>]
    /\ lastCall = NoCall
    /\ ~destroyed("player_m1")
    /\ engine["player_m1"].time = 1
    /\ videoStateSubject.currentTime = 0
    /\ activePlayerId = "player_m1"


----------------------------------------------------------------------------
(* Properties of the token's lifetime *)

\* the token names a surface that has been destroyed
HolderDestroyed == Truthy(activePlayerId) /\ destroyed(activePlayerId)

\* a gated update under an id other than the token's leaves the store as it was
OthersRejected ==
    lastCall'.op = "updateState" /\ lastCall'.playerId # activePlayerId =>
       /\ videoStateSubject' = videoStateSubject
       /\ received' = received

\* the token is never emptied and no destruction changes it
NoExpiryNoRelease ==
    /\ Truthy(activePlayerId) => Truthy(activePlayerId')
    /\ \A m \in Mains : Constructs(m) => activePlayerId' = m
    /\ \A s \in Surfaces : Destroys(s) => activePlayerId' = activePlayerId

\* C26 as stated: once a main surface has been constructed the token is never
\* empty again, destroying a surface leaves the token as it is, and while the
\* token names a destroyed surface it stays there, every gated update under
\* another id being a no-op, until a main surface is constructed.
C26_TokenOutlivesHolderUntilConstruction ==
    [][/\ NoExpiryNoRelease
       /\ HolderDestroyed =>
             \/ \E m \in Mains : Constructs(m)
             \/ activePlayerId' = activePlayerId /\ OthersRejected]_vars

\* C26 amended: the same, until a main surface assigns the token, at its
\* construction or at its ready callback.
C26_TokenOutlivesHolderUntilAssigned ==
    [][/\ NoExpiryNoRelease
       /\ HolderDestroyed =>
             \/ \E m \in Mains : (Constructs(m) \/ BecomesReady(m)) /\ activePlayerId' = m
             \/ activePlayerId' = activePlayerId /\ OthersRejected]_vars

\* The token names the destroyed player_m2, and the tick of the live
\* player_m1 has just been rejected: the store does not hold what it pushed
C26_Witness ==
    /\ activePlayerId = "player_m2"
    /\ destroyed("player_m2")
    /\ ~destroyed("player_m1")
    /\ lastCall.op = "updateState"
    /\ lastCall.playerId = "player_m1"
    /\ DOMAIN lastCall.state = DataFields
    /\ videoStateSubject.playerState # lastCall.state.playerState


----------------------------------------------------------------------------
(* Properties of the hand-off between two main surfaces *)

\* a gated update of main surface a is applied when a holds the token and is
\* a no-op when another surface holds it
GatedByToken ==
    \A a \in Mains :
        lastCall'.op = "updateState" /\ lastCall'.playerId = a /\ Truthy(activePlayerId) =>
           IF activePlayerId = a
           THEN Merged(videoStateSubject, lastCall'.state, videoStateSubject')
           ELSE /\ videoStateSubject' = videoStateSubject
                /\ received' = received

\* C27 as stated: the token goes to a main surface when it is constructed and
\* then stays with it for as long as no main surface is constructed, whatever
\* ready callbacks are delivered meanwhile, so the gated updates of an older
\* main surface are no-ops.
C27_TokenStaysWithNewestConstructed ==
    [][/\ \A m \in Mains : Constructs(m) => activePlayerId' = m
       /\ activePlayerId' # activePlayerId => \E m \in Mains : Constructs(m)
       /\ GatedByToken]_vars

\* C27 amended: the token goes to a main surface when it is constructed and
\* when its ready callback is delivered, and stays with it until the next
\* such event of a main surface; the gated updates of every other main
\* surface are no-ops meanwhile, those of the holder are applied.
C27_TokenStaysWithLatestAssigner ==
    [][/\ \A m \in Mains : Constructs(m) \/ BecomesReady(m) => activePlayerId' = m
       /\ activePlayerId' # activePlayerId =>
             \E m \in Mains : Constructs(m) \/ BecomesReady(m)
       /\ GatedByToken]_vars

\* player_m2 was constructed after player_m1 became ready (it holds the token
\* and is not ready yet), and the tick of the live player_m1 has just been
\* rejected
C27_Witness ==
    /\ activePlayerId = "player_m2"
    /\ player["player_m2"].phase = "configured"
    /\ ~player["player_m2"].isPlayerReady
    /\ ~destroyed("player_m1")
    /\ lastCall.op = "updateState"
    /\ lastCall.playerId = "player_m1"
    /\ DOMAIN lastCall.state = DataFields
    /\ videoStateSubject.currentTime # lastCall.state.currentTime


----------------------------------------------------------------------------
(* Properties of the automatic calls *)

\* C28: under automatic calls alone a call is started only while the state
\* is DEFAULT and no 15 s timer is pending, so at most one timer is pending,
\* the state is CALLING exactly while it is, the CALLING period ends only
\* when that timer fires, and a firing of the automatic timer during CALLING
\* changes nothing in the call service.
C28_AutoCallOnlyFromDefault ==
    /\ [](/\ calls.pending \in {0, 1}
          /\ calls.currentStateSubject = CALLING <=> calls.pending = 1)
    /\ [][/\ calls'.generated = calls.generated + 1 =>
                /\ calls.currentStateSubject = DEFAULT
                /\ calls.pending = 0
                /\ calls'.currentStateSubject = CALLING
          /\ calls.currentStateSubject = CALLING /\ calls' # calls =>
                /\ calls'.pending = 0
                /\ calls'.currentStateSubject = DEFAULT
                /\ calls'.generated = calls.generated]_vars

\* The second automatic call is in progress, its timer pending
C28_Witness ==
    /\ calls.autoCall
    /\ calls.generated = 2
    /\ calls.currentStateSubject = CALLING
    /\ calls.pending = 1
    /\ Len(calls.callHistory) = 2


----------------------------------------------------------------------------
(* Properties of the surfaces' visibility *)

\* C29: a container that has subscribed has processed every state emission
\* by the end of the step that made it; from then on Highlight.showVideo is
\* true exactly when the state is DEFAULT and Sidebar.showMiniVideo is true
\* exactly when the state is CALLING, so with both containers subscribed
\* exactly one of the two flags is true.
C29_VisibilityFollowsCallState ==
    /\ highlight.subscribed =>
          /\ highlight.showVideo <=> calls.currentStateSubject = DEFAULT
          /\ highlight.isCallingState <=> calls.currentStateSubject = CALLING
    /\ sidebar.subscribed =>
          /\ sidebar.showMiniVideo <=> calls.currentStateSubject = CALLING
          /\ sidebar.isCallingState <=> calls.currentStateSubject = CALLING
    /\ highlight.subscribed /\ sidebar.subscribed =>
          highlight.showVideo # sidebar.showMiniVideo

\* Both containers subscribed, one call came and went, and the second call
\* is in progress: the follower flag is up and the main flag is down
C29_Witness ==
    /\ highlight.subscribed
    /\ sidebar.subscribed
    /\ calls.generated = 2
    /\ calls.pending = 1
    /\ calls.currentStateSubject = CALLING
    /\ sidebar.showMiniVideo
    /\ ~highlight.showVideo

====
